---- MODULE Spec2Model ----
(***************************************************************************)
(* Model of src/components/data_transformation.py:                         *)
(*   - LabelEncodingTransformer (fit / transform on a DataFrame or on an   *)
(*     ndarray), used stand-alone under SpecEnc;                           *)
(*   - DataTransformation.initiate_data_transformation, the driver, under  *)
(*     SpecDrv.                                                            *)
(***************************************************************************)
EXTENDS Integers, Sequences, FiniteSets

VARIABLES
    encoders,   \* self.encoders of one LabelEncodingTransformer instance
    op,         \* the last call made on the instance: "new", "fit", "transform"
    arg,        \* the table the caller passed to the last call, as it was before the call
    X,          \* the caller's table after the last call returned or raised
    out,        \* what the last call produced: a table, or the raised error
    fits,       \* number of fit calls made on the instance so far
    \* initiate_data_transformation(train_path, test_path):
    pc,                         \* the statement the driver is about to run
    train_path, test_path,      \* the two input files
    train_df, test_df,
    preprocessing_obj,
    input_feature_train_df, target_feature_train_df,
    input_feature_test_df, target_feature_test_df,
    input_feature_train_arr, input_feature_test_arr,
    label_encoder,              \* classes_ of the target's LabelEncoder
    smote_tomek_obj,            \* what fit_resample did: rows added, rows removed
    resampled,                  \* input_feature_train_resampled_arr, target_feature_train_resampled_arr
    returned,                   \* the tuple the driver returned, if it returned
    exc                         \* the exception that left the driver, if one did

encVars == <<encoders, op, arg, X, out, fits>>

drvVars ==
    <<pc, train_path, test_path, train_df, test_df, preprocessing_obj,
      input_feature_train_df, target_feature_train_df,
      input_feature_test_df, target_feature_test_df,
      input_feature_train_arr, input_feature_test_arr,
      label_encoder, smote_tomek_obj, resampled, returned, exc>>

vars == <<encVars, drvVars>>

(***************************************************************************)
(* Values.  A cell of a table is a string or a number; strings and numbers *)
(* are kept apart by a tag so that 7 and "7" differ as they do in Python.  *)
(***************************************************************************)
Str(s) == [k |-> "str", s |-> s, n |-> 0]
Num(n) == [k |-> "num", s |-> "", n |-> n]

\* The string literals of the model, in Python's (code point) order.
StrOrder ==
    <<"A", "B", "C", "H", "Heat Dissipation Failure", "L", "M",
      "No Failure", "Power Failure", "Type", "x">>

StrRank(s) == CHOOSE i \in 1..Len(StrOrder) : StrOrder[i] = s

\* v < w for two values of one kind, as Python orders them.
Less(v, w) ==
    IF v.k = "num" /\ w.k = "num" THEN v.n < w.n
    ELSE StrRank(v.s) < StrRank(w.s)

Range(f) == {f[i] : i \in DOMAIN f}

RECURSIVE SortedSeq(_)
\* The elements of a finite set of values in ascending order.
SortedSeq(S) ==
    IF S = {} THEN <<>>
    ELSE LET m == CHOOSE v \in S : \A w \in S \ {v} : Less(v, w)
         IN  <<m>> \o SortedSeq(S \ {m})

(***************************************************************************)
(* sklearn.preprocessing.LabelEncoder, as used by lines 36-37, 45-46, 59   *)
(* and 67: fit keeps the sorted distinct values (classes_); transform      *)
(* maps each value to its index in classes_ and raises ValueError on a     *)
(* value that is not in classes_.                                          *)
(***************************************************************************)
LabelEncoder_fit(col) == SortedSeq(Range(col))

LabelEncoder_unseen(classes, col) == \E i \in DOMAIN col : col[i] \notin Range(classes)

CodeOf(classes, v) == (CHOOSE c \in DOMAIN classes : classes[c] = v) - 1

LabelEncoder_transform(classes, col) == [i \in DOMAIN col |-> Num(CodeOf(classes, col[i]))]

(***************************************************************************)
(* Tables.  A DataFrame has named columns, each with its own dtype; an     *)
(* ndarray has one dtype for the whole array and its columns are addressed *)
(* by position 0..shape[1]-1.  cols[j] is the j-th column, top to bottom.  *)
(***************************************************************************)
DataFrame(names, dtypes, cols) ==
    [kind |-> "frame", columns |-> names, dtypes |-> dtypes, dtype |-> "", cols |-> cols]

NdArray(dtype, cols) ==
    [kind |-> "array", columns |-> <<>>, dtypes |-> <<>>, dtype |-> dtype, cols |-> cols]

\* The dtypes of fixed-width string ndarrays, by item width.
UDtypes == <<"<U1", "<U2", "<U3">>

RECURSIVE MaxLen(_)
\* The length of the longest string among values.
MaxLen(vals) ==
    IF vals = {} THEN 0
    ELSE LET v == CHOOSE w \in vals : TRUE
             rest == MaxLen(vals \ {v})
         IN  IF Len(v.s) > rest THEN Len(v.s) ELSE rest

\* np.array of Python strings: a string ndarray as wide as its longest
\* string.
StrArray(cols) ==
    NdArray(UDtypes[MaxLen(UNION {{cols[j][i] : i \in DOMAIN cols[j]} : j \in DOMAIN cols})],
            cols)

isStrArray(T) == T.kind = "array" /\ \E w \in DOMAIN UDtypes : UDtypes[w] = T.dtype

ItemWidth(T) == CHOOSE w \in DOMAIN UDtypes : UDtypes[w] = T.dtype

NoTable == [kind |-> "none", columns |-> <<>>, dtypes |-> <<>>, dtype |-> "", cols |-> <<>>]

isDataFrame(T) == T.kind = "frame"

\* np.issubdtype(dtype, np.number)
IsNumberDtype(dtype) == dtype \in {"int64", "float64"}

\* The dictionary key of the j-th column: the column name for a DataFrame
\* (lines 33, 56), the 0-based position for an ndarray (lines 42, 64).
KeyOf(T, j) == IF isDataFrame(T) THEN Str(T.columns[j]) ELSE Num(j - 1)

\* Line 35 for a DataFrame column, line 44 for an ndarray column: X[:, i]
\* is a view of X and carries the dtype of the whole array.
IsCategoricalColumn(T, j) ==
    IF isDataFrame(T)
    THEN T.dtypes[j] = "object" \/ T.dtypes[j] = "category"
    ELSE ~IsNumberDtype(T.dtype)

\* self.encoders = {} (line 25).
EmptyDict == [key \in {} |-> <<>>]

\* LabelEncodingTransformer.fit: self.encoders after fit(T) when it was enc
\* before.  Entries are added or overwritten; the dictionary is not cleared.
fit(enc, T) ==
    LET fitted == {j \in DOMAIN T.cols : IsCategoricalColumn(T, j)}
        keys   == {KeyOf(T, j) : j \in fitted}
        colOf(key) == CHOOSE j \in fitted : KeyOf(T, j) = key
    IN  [key \in (DOMAIN enc) \cup keys |->
            IF key \in keys THEN LabelEncoder_fit(T.cols[colOf(key)]) ELSE enc[key]]

\* The columns of T that transform encodes (lines 58, 66).
Encoded(enc, T) == {j \in DOMAIN T.cols : KeyOf(T, j) \in DOMAIN enc}

RECURSIVE DigitsOf(_)
\* The decimal digits of n >= 0, first to last.
DigitsOf(n) == IF n < 10 THEN <<n>> ELSE Append(DigitsOf(n \div 10), n % 10)

RECURSIVE Joined(_)
Joined(chars) == IF chars = <<>> THEN "" ELSE Head(chars) \o Joined(Tail(chars))

\* str(n) cut to width characters: what numpy stores when the integer n is
\* assigned into a string array of that item width.
AsText(n, width) ==
    LET digit == <<"0", "1", "2", "3", "4", "5", "6", "7", "8", "9">>
        abs   == IF n < 0 THEN 0 - n ELSE n
        chars == (IF n < 0 THEN <<"-">> ELSE <<>>)
                   \o [d \in DOMAIN DigitsOf(abs) |-> digit[DigitsOf(abs)[d] + 1]]
    IN  Joined(SubSeq(chars, 1, IF width < Len(chars) THEN width ELSE Len(chars)))

\* X_encoded[col] = codes (line 59), X_encoded[:, i] = codes (line 67): the
\* column of the copy after the assignment.  A string ndarray keeps its
\* dtype and stores each code as text of its item width.
Stored(T, codes) ==
    IF isStrArray(T)
    THEN [i \in DOMAIN codes |-> Str(AsText(codes[i].n, ItemWidth(T)))]
    ELSE codes

\* A transform that gives an unseen value the code -1 instead of raising.
transform_lenient(enc, T) ==
    LET hit == Encoded(enc, T)
        code(classes, v) == IF v \in Range(classes) THEN CodeOf(classes, v) ELSE -1
    IN  [raised |-> FALSE, X |-> T, encoders |-> enc,
         out |-> [T EXCEPT
             !.cols = [j \in DOMAIN T.cols |->
                 IF j \in hit
                 THEN Stored(T, [i \in DOMAIN T.cols[j] |->
                                    Num(code(enc[KeyOf(T, j)], T.cols[j][i]))])
                 ELSE T.cols[j]],
             !.dtypes = [j \in DOMAIN T.dtypes |->
                 IF j \in hit THEN "int64" ELSE T.dtypes[j]]]]

\* A transform that writes the codes into X itself (X_encoded = X, no copy).
transform_inplace(enc, T) ==
    LET hit == Encoded(enc, T)
        res == [T EXCEPT
                  !.cols = [j \in DOMAIN T.cols |->
                      IF j \in hit
                      THEN Stored(T, LabelEncoder_transform(enc[KeyOf(T, j)], T.cols[j]))
                      ELSE T.cols[j]],
                  !.dtypes = [j \in DOMAIN T.dtypes |->
                      IF j \in hit THEN "int64" ELSE T.dtypes[j]]]
    IN  IF \E j \in hit : LabelEncoder_unseen(enc[KeyOf(T, j)], T.cols[j])
        THEN [raised |-> TRUE, X |-> T, out |-> NoTable, encoders |-> enc]
        ELSE [raised |-> FALSE, X |-> res, encoders |-> enc, out |-> res]

\* A transform that fits the encoders on its input before applying them.
transform_refit(enc, T) ==
    LET enc2 == fit(enc, T)
        hit  == Encoded(enc2, T)
    IN  IF \E j \in hit : LabelEncoder_unseen(enc2[KeyOf(T, j)], T.cols[j])
        THEN [raised |-> TRUE, X |-> T, out |-> NoTable, encoders |-> enc2]
        ELSE [raised |-> FALSE, X |-> T, encoders |-> enc2,
              out |-> [T EXCEPT
                  !.cols = [j \in DOMAIN T.cols |->
                      IF j \in hit
                      THEN Stored(T, LabelEncoder_transform(enc2[KeyOf(T, j)], T.cols[j]))
                      ELSE T.cols[j]],
                  !.dtypes = [j \in DOMAIN T.dtypes |->
                      IF j \in hit THEN "int64" ELSE T.dtypes[j]]]]

\* LabelEncodingTransformer.transform: the outcome of transform(T) with
\* self.encoders = enc.  X is the caller's table afterwards, out the
\* returned copy, encoders the dictionary afterwards; raised when some
\* encoder meets an unseen value.  An encoded DataFrame column becomes
\* int64; an ndarray keeps its dtype.
transform(enc, T) ==
    LET hit == Encoded(enc, T)
    IN  IF \E j \in hit : LabelEncoder_unseen(enc[KeyOf(T, j)], T.cols[j])
        THEN [raised |-> TRUE, X |-> T, out |-> NoTable, encoders |-> enc]
        ELSE [raised |-> FALSE, X |-> T, encoders |-> enc,
              out |-> [T EXCEPT
                  !.cols = [j \in DOMAIN T.cols |->
                      IF j \in hit
                      THEN Stored(T, LabelEncoder_transform(enc[KeyOf(T, j)], T.cols[j]))
                      ELSE T.cols[j]],
                  !.dtypes = [j \in DOMAIN T.dtypes |->
                      IF j \in hit THEN "int64" ELSE T.dtypes[j]]]]

(***************************************************************************)
(* The preprocessing pipeline of get_data_transformer_object.              *)
(*                                                                         *)
(* A missing value is NaN.  A cell of a preprocessed matrix is the exact   *)
(* description of a standardised value: Cell(num, W, den) stands for       *)
(* num / sqrt(W) when W > 0 and for num / den when W = 0 (StandardScaler   *)
(* divides by 1 when the fitted variance is 0).  An integer c is           *)
(* Cell(c, 0, 1).                                                          *)
(***************************************************************************)
NaN == [k |-> "nan", s |-> "", n |-> 0]

Cell(num, W, den) == [num |-> num, W |-> W, den |-> den]

IntCell(c) == Cell(c, 0, 1)

numerical_columns ==
    <<"Air temperature K", "Process temperature K", "Rotational speed rpm",
      "Torque Nm", "Tool wear min">>

categorical_columns == <<"Type">>

target_column_name == "Failure Type"

RECURSIVE SeqSum(_)
SeqSum(q) == IF q = <<>> THEN 0 ELSE Head(q) + SeqSum(Tail(q))

HasColumn(df, name) == \E j \in DOMAIN df.columns : df.columns[j] = name

ColumnIndex(df, name) == CHOOSE j \in DOMAIN df.columns : df.columns[j] = name

Column(df, name) == df.cols[ColumnIndex(df, name)]

NRows(T) == IF T.cols = <<>> THEN 0 ELSE Len(T.cols[1])

\* df.drop(columns=[name]) of a frame that has the column.
Drop(df, name) ==
    LET keep == SelectSeq([j \in DOMAIN df.columns |-> j],
                          LAMBDA j : df.columns[j] # name)
    IN  DataFrame([i \in DOMAIN keep |-> df.columns[keep[i]]],
                  [i \in DOMAIN keep |-> df.dtypes[keep[i]]],
                  [i \in DOMAIN keep |-> df.cols[keep[i]]])

IsObserved(v) == v.k # "nan"

Observed(col) == SelectSeq(col, IsObserved)

\* The p-th smallest of a sequence of numbers.
AtRank(col, p) ==
    CHOOSE v \in Range(col) :
        /\ Cardinality({i \in DOMAIN col : col[i].n < v.n}) < p
        /\ p <= Cardinality({i \in DOMAIN col : col[i].n <= v.n})

\* SimpleImputer.fit on a column without any observed value: the
\* statistic is NaN, and transform leaves the column out of its output.
IsEmptyFeature(col) == Observed(col) = <<>>

\* SimpleImputer(strategy="median"): twice the median of the observed
\* values (twice, so that the mean of the two middle values stays whole);
\* 0 stands for the NaN statistic of a column without observed values.
Median2(col) ==
    LET obs == Observed(col)
        m   == Len(obs)
    IN  IF m = 0 THEN 0
        ELSE IF m % 2 = 1
        THEN 2 * AtRank(obs, (m + 1) \div 2).n
        ELSE AtRank(obs, m \div 2).n + AtRank(obs, m \div 2 + 1).n

\* SimpleImputer(strategy="most_frequent"): the most frequent observed
\* value, the smallest of them on a tie; NaN for a column without observed
\* values.
MostFrequent(col) ==
    LET obs == Observed(col)
        count(v) == Cardinality({i \in DOMAIN obs : obs[i] = v})
        top == {v \in Range(obs) : \A w \in Range(obs) : count(w) <= count(v)}
    IN  IF obs = <<>> THEN NaN
        ELSE CHOOSE v \in top : \A w \in top \ {v} : Less(v, w)

\* A numeric value after median imputation, in half units.
Imputed2(median2, v) == IF IsObserved(v) THEN 2 * v.n ELSE median2

\* num_pipeline fitted on one column: the imputer's median and the
\* scaler's count, sum and sum of squares of the imputed column (from
\* which mean_ and scale_ follow), all in half units.  A column without
\* observed values (empty) does not reach the scaler.
num_fit(col) ==
    LET m2 == Median2(col)
        x2 == [i \in DOMAIN col |-> Imputed2(m2, col[i])]
    IN  IF IsEmptyFeature(col)
        THEN [empty |-> TRUE, median2 |-> 0, n |-> Len(col), s |-> 0, q |-> 0]
        ELSE [empty |-> FALSE, median2 |-> m2, n |-> Len(col), s |-> SeqSum(x2),
              q |-> SeqSum([i \in DOMAIN x2 |-> x2[i] * x2[i]])]

\* num_pipeline applied to a value: (x - mean_) / scale_, which is
\* (n*x2 - s) / sqrt(n*q - s*s), or (n*x2 - s) / (2*n) when the variance is 0.
num_transform(st, v) ==
    Cell(st.n * Imputed2(st.median2, v) - st.s, st.n * st.q - st.s * st.s, 2 * st.n)

ImputedCat(most_frequent, col) ==
    [i \in DOMAIN col |-> IF IsObserved(col[i]) THEN col[i] ELSE most_frequent]

\* cat_pipeline fitted on the Type column: the imputer's fill value, the
\* encoders of a fresh LabelEncodingTransformer fitted on the imputer's
\* output (an object ndarray of one column), and the scaler's count, sum
\* and sum of squares of the codes.
cat_fit(col) ==
    LET mf    == MostFrequent(col)
        arr   == NdArray("object", <<ImputedCat(mf, col)>>)
        enc   == fit(EmptyDict, arr)
        codes == transform(enc, arr).out.cols[1]
        c     == [i \in DOMAIN codes |-> codes[i].n]
    IN  IF IsEmptyFeature(col)
        THEN [empty |-> TRUE, most_frequent |-> NaN, encoders |-> EmptyDict,
              n |-> Len(col), s |-> 0, q |-> 0]
        ELSE [empty |-> FALSE, most_frequent |-> mf, encoders |-> enc, n |-> Len(col),
              s |-> SeqSum(c), q |-> SeqSum([i \in DOMAIN c |-> c[i] * c[i]])]

\* The encoder step of cat_pipeline applied to a column.
cat_encode(st, col) ==
    transform(st.encoders, NdArray("object", <<ImputedCat(st.most_frequent, col)>>))

\* StandardScaler(with_mean=False) applied to a code: code / scale_.
cat_scale(st, code) == Cell(st.n * code.n, st.n * st.q - st.s * st.s, st.n)

\* The unfitted ColumnTransformer of lines 110-115: the transformers in
\* order, each with the columns it is routed.
get_data_transformer_object ==
    [transformers |-> <<[name |-> "num_pipeline", columns |-> numerical_columns],
                        [name |-> "cat_pipeline", columns |-> categorical_columns]>>,
     fitted |-> FALSE, num |-> <<>>, cat |-> <<>>]

RoutedColumns(pre) ==
    UNION {Range(pre.transformers[t].columns) : t \in DOMAIN pre.transformers}

\* ColumnTransformer raises ValueError on a frame that lacks a routed
\* column or has no rows.
Unroutable(pre, df) ==
    \/ \E name \in RoutedColumns(pre) : ~HasColumn(df, name)
    \/ NRows(df) = 0

\* The state fitted on a frame: one fitted pipeline per routed column.
ColumnTransformer_fit(pre, df) ==
    [pre EXCEPT
        !.fitted = TRUE,
        !.num = [c \in DOMAIN numerical_columns |-> num_fit(Column(df, numerical_columns[c]))],
        !.cat = [c \in DOMAIN categorical_columns |-> cat_fit(Column(df, categorical_columns[c]))]]

\* The columns a fitted pipeline puts out: those its imputer does not
\* leave out.
KeptColumns(fitted) ==
    SelectSeq([c \in DOMAIN fitted |-> c], LAMBDA c : ~fitted[c].empty)

\* StandardScaler raises ValueError when the imputer of its pipeline has
\* left it no column.
NoFeatures(fitted) == KeptColumns(fitted) = <<>>

\* The block a fitted transformer produces for row i of a frame.
Block(pre, t, df, i) ==
    LET tr == pre.transformers[t]
        num == KeptColumns(pre.num)
        cat == KeptColumns(pre.cat)
    IN  IF tr.name = "num_pipeline"
        THEN [k \in DOMAIN num |->
                 num_transform(pre.num[num[k]], Column(df, tr.columns[num[k]])[i])]
        ELSE [k \in DOMAIN cat |->
                 cat_scale(pre.cat[cat[k]],
                           cat_encode(pre.cat[cat[k]],
                                      Column(df, tr.columns[cat[k]])).out.cols[1][i])]

RECURSIVE HStack(_, _, _, _)
\* The blocks of transformers t.. for row i, side by side in order.
HStack(pre, t, df, i) ==
    IF t > Len(pre.transformers) THEN <<>>
    ELSE Block(pre, t, df, i) \o HStack(pre, t + 1, df, i)

\* ColumnTransformer.transform with fitted state pre: the feature matrix,
\* one row per row of df in order, and the state afterwards; raised when a column is missing, the
\* frame is empty, or the encoder meets a Type value unseen at fit time.
ColumnTransformer_transform(pre, df) ==
    IF Unroutable(pre, df)
    THEN [raised |-> TRUE, pre |-> pre, arr |-> <<>>]
    ELSE IF \E c \in DOMAIN categorical_columns :
                cat_encode(pre.cat[c], Column(df, categorical_columns[c])).raised
    THEN [raised |-> TRUE, pre |-> pre, arr |-> <<>>]
    ELSE [raised |-> FALSE, pre |-> pre,
          arr |-> [i \in 1..NRows(df) |-> HStack(pre, 1, df, i)]]

\* ColumnTransformer.fit_transform: fit on df, then transform df; raised
\* also when a pipeline's scaler is left without a column.
ColumnTransformer_fit_transform(pre, df) ==
    IF Unroutable(pre, df)
    THEN [raised |-> TRUE, pre |-> pre, arr |-> <<>>]
    ELSE LET fitted == ColumnTransformer_fit(pre, df)
             r == ColumnTransformer_transform(fitted, df)
         IN  IF NoFeatures(fitted.num) \/ NoFeatures(fitted.cat)
             THEN [raised |-> TRUE, pre |-> pre, arr |-> <<>>]
             ELSE [raised |-> r.raised, pre |-> fitted, arr |-> r.arr]

(***************************************************************************)
(* imblearn.combine.SMOTETomek(random_state=42).fit_resample, line 162:    *)
(* SMOTE raises every class to the size of the largest one with synthetic  *)
(* rows, then TomekLinks(sampling_strategy="all") removes both rows of     *)
(* every pair of rows of different classes that are each other's nearest   *)
(* neighbour.  Which of several equally near rows the neighbour search     *)
(* names is left open.                                                     *)
(***************************************************************************)
\* SMOTE's default number of neighbours.
k_neighbors == 5

CountOf(y, c) == Cardinality({i \in DOMAIN y : y[i] = c})

MajorityCount(y) == CHOOSE m \in {CountOf(y, c) : c \in Range(y)} :
                        \A c \in Range(y) : CountOf(y, c) <= m

\* The number of synthetic rows SMOTE makes for class c.
Need(y, c) == MajorityCount(y) - CountOf(y, c)

\* SMOTE raises ValueError when y has fewer than two classes, and when a
\* class to oversample has fewer than k_neighbors + 1 rows.
SmoteFails(y) ==
    \/ Cardinality(Range(y)) <= 1
    \/ \E c \in Range(y) : Need(y, c) > 0 /\ CountOf(y, c) < k_neighbors + 1

\* x + gap * (nn - x), the synthetic row between row x and its neighbour nn.
Interpolate(x, nn, gap) ==
    [c \in DOMAIN x |-> Cell(x[c].num + gap * (nn[c].num - x[c].num), x[c].W, x[c].den)]

\* The synthetic rows of class c.  The seeded generator's draws (the base
\* row, the neighbour, the gap in [0, 1)) are not modelled: the base row is
\* the first row of the class, the neighbour the last, the gap 0.  In every
\* input of the model an oversampled class consists of equal rows, so every
\* draw yields the same row.
SmoteSamples(Xm, y, c) ==
    LET rows == {i \in DOMAIN y : y[i] = c}
        base == CHOOSE i \in rows : \A j \in rows : i <= j
        nn   == CHOOSE i \in rows : \A j \in rows : j <= i
    IN  [r \in 1..Need(y, c) |-> Interpolate(Xm[base], Xm[nn], 0)]

RECURSIVE SmoteAppend(_, _, _)
\* The synthetic rows and labels of the classes cs, in ascending class order.
SmoteAppend(Xm, y, cs) ==
    IF cs = {} THEN [X |-> <<>>, y |-> <<>>]
    ELSE LET c == CHOOSE a \in cs : \A b \in cs : a <= b
             rest == SmoteAppend(Xm, y, cs \ {c})
         IN  [X |-> SmoteSamples(Xm, y, c) \o rest.X,
              y |-> [r \in 1..Need(y, c) |-> c] \o rest.y]

\* SMOTE.fit_resample on a target it accepts: the rows, then the synthetic rows.
Smote(Xm, y) ==
    LET new == SmoteAppend(Xm, y, Range(y))
    IN  [X |-> Xm \o new.X, y |-> y \o new.y]

\* The columns on which the rows of Xr do not all agree.
ActiveColumns(Xr) ==
    {c \in DOMAIN Xr[1] : \E a, b \in DOMAIN Xr : Xr[a][c].num # Xr[b][c].num}

\* The square of the divisor of column c: W, or den^2 when W = 0.
ColDen(Xr, c) == IF Xr[1][c].W > 0 THEN Xr[1][c].W ELSE Xr[1][c].den * Xr[1][c].den

RECURSIVE DenProd(_, _)
DenProd(Xr, S) ==
    IF S = {} THEN 1
    ELSE LET c == CHOOSE a \in S : TRUE IN ColDen(Xr, c) * DenProd(Xr, S \ {c})

RECURSIVE DistSum(_, _, _, _, _)
DistSum(Xr, active, S, i, j) ==
    IF S = {} THEN 0
    ELSE LET c == CHOOSE a \in S : TRUE
             delta == Xr[i][c].num - Xr[j][c].num
         IN  delta * delta * DenProd(Xr, active \ {c}) + DistSum(Xr, active, S \ {c}, i, j)

\* The squared Euclidean distance between rows i and j of Xr, times a
\* factor common to all pairs of rows: column c contributes
\* (num_i - num_j)^2 / ColDen(c); the columns on which all rows agree
\* (all but the columns in active) contribute 0 and are left out of the
\* common denominator.
Dist(Xr, active, i, j) == DistSum(Xr, active, active, i, j)

\* The rows kneighbors can name as the nearest other row of row i.  A row
\* that has equal rows is answered with one of the rows equal to it: the
\* search is a function of the query point, so equal rows get the same
\* answer (here the first of them).  Any other row is answered with a row
\* at the least distance, any one of them when several are equally near.
Candidates(Xr, active, i) ==
    LET equal == {j \in DOMAIN Xr : Dist(Xr, active, i, j) = 0}
    IN  IF equal # {i}
        THEN {CHOOSE j \in equal : \A k \in equal : j <= k}
        ELSE {j \in DOMAIN Xr \ {i} :
                 \A k \in DOMAIN Xr \ {i} :
                     Dist(Xr, active, i, j) <= Dist(Xr, active, i, k)}

RECURSIVE NeighbourChoices(_, _, _)
\* The answers kneighbors can give for rows 1..n: one candidate per row.
NeighbourChoices(Xr, active, n) ==
    IF n = 0 THEN {<<>>}
    ELSE {Append(nn, j) : nn \in NeighbourChoices(Xr, active, n - 1),
                          j \in Candidates(Xr, active, n)}

\* TomekLinks that removes one row of each link only, the row of the
\* smaller class.
TomekLinks_one_sided(Xr, yr) ==
    {{i \in DOMAIN Xr : yr[i] < yr[nn[i]] /\ nn[nn[i]] = i} :
        nn \in NeighbourChoices(Xr, ActiveColumns(Xr), Len(Xr))}

\* TomekLinks: the sets of rows it can find in a Tomek link, a pair of
\* rows of different classes that are each other's nearest neighbour; one
\* set per answer of the neighbour search.
TomekLinks(Xr, yr) ==
    {{i \in DOMAIN Xr : yr[i] # yr[nn[i]] /\ nn[nn[i]] = i} :
        nn \in NeighbourChoices(Xr, ActiveColumns(Xr), Len(Xr))}

Keep(q, removed) ==
    LET kept == SelectSeq([i \in DOMAIN q |-> i], LAMBDA i : i \notin removed)
    IN  [r \in DOMAIN kept |-> q[kept[r]]]

\* smote_tomek_obj.fit_resample(Xm, y): the outcomes it can have; in each
\* n_synthetic rows were added by SMOTE and n_removed rows removed by
\* TomekLinks.
fit_resample(Xm, y) ==
    IF SmoteFails(y)
    THEN {[raised |-> TRUE, X |-> <<>>, y |-> <<>>, n_synthetic |-> 0, n_removed |-> 0]}
    ELSE LET sm == Smote(Xm, y)
         IN  {[raised |-> FALSE,
               X |-> Keep(sm.X, removed),
               y |-> Keep(sm.y, removed),
               n_synthetic |-> Len(sm.X) - Len(Xm),
               n_removed |-> Cardinality(removed)] :
                 removed \in TomekLinks(sm.X, sm.y)}

\* np.c_[A, y]: the rows of A, each with the entry of y appended.
c_(A, y) == [i \in DOMAIN A |-> Append(A[i], IntCell(y[i]))]

(***************************************************************************)
(* DataTransformation.initiate_data_transformation.                        *)
(***************************************************************************)
\* A target encoder that is fitted again on the series it is applied to.
target_transform_refit(classes, col) ==
    [raised |-> FALSE, classes |-> LabelEncoder_fit(col),
     codes |-> LabelEncoder_transform(LabelEncoder_fit(col), col)]

\* A target encoder that gives an unseen label the code -1.
target_transform_lenient(classes, col) ==
    [raised |-> FALSE, classes |-> classes,
     codes |-> [i \in DOMAIN col |->
                   IF col[i] \in Range(classes) THEN Num(CodeOf(classes, col[i]))
                   ELSE Num(-1)]]

\* The target's LabelEncoder applied to a series (line 152): the codes,
\* the encoder's classes_ afterwards; raised on an unseen label.
target_transform(classes, col) ==
    IF LabelEncoder_unseen(classes, col)
    THEN [raised |-> TRUE, classes |-> classes, codes |-> <<>>]
    ELSE [raised |-> FALSE, classes |-> classes,
          codes |-> LabelEncoder_transform(classes, col)]

\* raise CustomException(e, sys) (line 188).
CustomException(e) == <<"CustomException", e>>

preprocessor_obj_file_path == "artifacts/preprocessor.pkl"

NoneReturned == [ok |-> FALSE, train_arr |-> <<>>, test_arr |-> <<>>, path |-> ""]

NoResample == [X |-> <<>>, y |-> <<>>]

NoSmoteTomek == [fitted |-> FALSE, n_synthetic |-> 0, n_removed |-> 0]

\* The header of the input files.
CsvHeader ==
    <<"Type", "Air temperature K", "Process temperature K", "Rotational speed rpm",
      "Torque Nm", "Tool wear min", "Failure Type">>

\* A record of an input file: its air temperature, Type and Failure Type;
\* the other four readings are the same in every record.
CsvValue(row, name) ==
    CASE name = "Type" -> row.type
      [] name = "Air temperature K" -> row.air
      [] name = "Failure Type" -> row.label
      [] name = "Process temperature K" -> Num(3)
      [] name = "Rotational speed rpm" -> Num(15)
      [] name = "Torque Nm" -> Num(4)
      [] OTHER -> Num(0)

\* The dtype pd.read_csv gives a column: object when the file has no
\* record or a cell holds text, int64 when every cell holds a number
\* (numbers are written without a decimal point), float64 when a cell is
\* empty and none holds text.
CsvDtype(col) ==
    IF col = <<>> \/ \E i \in DOMAIN col : col[i].k = "str" THEN "object"
    ELSE IF \A i \in DOMAIN col : col[i].k = "num" THEN "int64"
    ELSE "float64"

\* pd.read_csv of a readable file with the given header and records.
CsvFrame(header, rows) ==
    LET cols == [j \in DOMAIN header |->
                    [i \in DOMAIN rows |-> CsvValue(rows[i], header[j])]]
    IN  DataFrame(header, [j \in DOMAIN header |-> CsvDtype(cols[j])], cols)

CsvFile(header, rows) == [readable |-> TRUE, frame |-> CsvFrame(header, rows)]

Unreadable == [readable |-> FALSE, frame |-> NoTable]

Without(header, name) == SelectSeq(header, LAMBDA h : h # name)

Row(air, type, label) == [air |-> air, type |-> type, label |-> label]

HDF == Str("Heat Dissipation Failure")
NF == Str("No Failure")
PWF == Str("Power Failure")

TrainRows ==
    {Row(Num(1), Str("L"), NF), Row(Num(3), Str("M"), NF), Row(NaN, Str("M"), NF),
     Row(Num(1), Str("L"), HDF), Row(Num(3), Str("L"), HDF), Row(Num(3), NaN, HDF),
     Row(NaN, Str("M"), HDF), Row(Num(1), NaN, NF)}

BlockRows ==
    {Row(Num(1), Str("L"), NF), Row(Num(3), Str("M"), NF),
     Row(Num(1), Str("L"), HDF), Row(Num(3), Str("L"), HDF)}

TestRows ==
    {Row(Num(1), Str("L"), NF), Row(NaN, NaN, HDF),
     Row(Num(3), Str("H"), NF), Row(Num(3), Str("M"), PWF)}

MaxTrain == 2
MaxTest == 2
MaxBlock == 7

SeqsUpTo(S, n) == UNION {[1..m -> S] : m \in 0..n}

Rep(row, n) == [i \in 1..n |-> row]

\* Air temperatures of four records on a line: in each some record has
\* two equally near neighbours.
LineAirs == {<<2, 3, 1, 9>>, <<1, 2, 3, 4>>}

\* Four records that differ in air temperature and label only.
LineRecords ==
    {[i \in 1..4 |-> Row(Num(airs[i]), Str("L"), labels[i])] :
        airs \in LineAirs, labels \in [1..4 -> {NF, HDF}]}

\* Training records: short sequences of any records, two blocks of equal
\* records, the second just large enough for SMOTE to find k_neighbors
\* neighbours of a row in it, and four records on a line.
TrainRecords ==
    SeqsUpTo(TrainRows, MaxTrain)
      \cup {Rep(r1, a) \o Rep(r2, k_neighbors + 1) :
               r1 \in BlockRows, r2 \in BlockRows, a \in k_neighbors..MaxBlock}
      \cup LineRecords

OneRow == <<Row(Num(1), Str("L"), NF)>>

TrainFiles ==
    {CsvFile(CsvHeader, rows) : rows \in TrainRecords}
      \cup {Unreadable,
            CsvFile(Without(CsvHeader, "Failure Type"), OneRow),
            CsvFile(Without(CsvHeader, "Type"), OneRow)}

TestFiles ==
    {CsvFile(CsvHeader, rows) : rows \in SeqsUpTo(TestRows, MaxTest)}
      \cup {Unreadable,
            CsvFile(Without(CsvHeader, "Failure Type"), OneRow),
            CsvFile(Without(CsvHeader, "Torque Nm"), OneRow)}

Idle == /\ pc = "idle"
        /\ train_path = Unreadable
        /\ test_path = Unreadable

Locals ==
        /\ train_df = NoTable
        /\ test_df = NoTable
        /\ preprocessing_obj = [transformers |-> <<>>, fitted |-> FALSE, num |-> <<>>, cat |-> <<>>]
        /\ input_feature_train_df = NoTable
        /\ target_feature_train_df = <<>>
        /\ input_feature_test_df = NoTable
        /\ target_feature_test_df = <<>>
        /\ input_feature_train_arr = <<>>
        /\ input_feature_test_arr = <<>>
        /\ label_encoder = <<>>
        /\ smote_tomek_obj = NoSmoteTomek
        /\ resampled = NoResample
        /\ returned = NoneReturned
        /\ exc = <<>>

\* except Exception as e: raise CustomException(e, sys) (lines 187-188).
Raise(e) ==
    /\ pc' = "raised"
    /\ exc' = CustomException(e)
    /\ UNCHANGED <<train_path, test_path, returned>>

\* Lines 124-125.
ReadCsv ==
    /\ pc = "read_csv"
    /\ IF train_path.readable /\ test_path.readable
       THEN /\ train_df' = train_path.frame
            /\ test_df' = test_path.frame
            /\ pc' = "get_transformer"
            /\ UNCHANGED <<train_path, test_path, returned, exc>>
       ELSE /\ Raise("FileNotFoundError")
            /\ UNCHANGED <<train_df, test_df>>
    /\ UNCHANGED <<preprocessing_obj, input_feature_train_df, target_feature_train_df,
                   input_feature_test_df, target_feature_test_df, input_feature_train_arr,
                   input_feature_test_arr, label_encoder, smote_tomek_obj, resampled>>
    /\ UNCHANGED encVars

\* Line 131.
GetTransformer ==
    /\ pc = "get_transformer"
    /\ preprocessing_obj' = get_data_transformer_object
    /\ pc' = "split"
    /\ UNCHANGED <<train_path, test_path, returned, exc, train_df, test_df,
                   input_feature_train_df, target_feature_train_df,
                   input_feature_test_df, target_feature_test_df, input_feature_train_arr,
                   input_feature_test_arr, label_encoder, smote_tomek_obj, resampled>>
    /\ UNCHANGED encVars

\* Lines 135-140.
SplitTarget ==
    /\ pc = "split"
    /\ IF HasColumn(train_df, target_column_name) /\ HasColumn(test_df, target_column_name)
       THEN /\ input_feature_train_df' = Drop(train_df, target_column_name)
            /\ target_feature_train_df' = Column(train_df, target_column_name)
            /\ input_feature_test_df' = Drop(test_df, target_column_name)
            /\ target_feature_test_df' = Column(test_df, target_column_name)
            /\ pc' = "fit_transform"
            /\ UNCHANGED <<train_path, test_path, returned, exc>>
       ELSE /\ Raise("KeyError")
            /\ UNCHANGED <<input_feature_train_df, target_feature_train_df,
                           input_feature_test_df, target_feature_test_df>>
    /\ UNCHANGED <<train_df, test_df, preprocessing_obj, input_feature_train_arr,
                   input_feature_test_arr, label_encoder, smote_tomek_obj, resampled>>
    /\ UNCHANGED encVars

\* Line 146.
FitTransformTrain ==
    /\ pc = "fit_transform"
    /\ LET r == ColumnTransformer_fit_transform(preprocessing_obj, input_feature_train_df)
       IN  IF r.raised
           THEN /\ Raise("ValueError")
                /\ UNCHANGED <<preprocessing_obj, input_feature_train_arr>>
           ELSE /\ preprocessing_obj' = r.pre
                /\ input_feature_train_arr' = r.arr
                /\ pc' = "transform"
                /\ UNCHANGED <<train_path, test_path, returned, exc>>
    /\ UNCHANGED <<train_df, test_df, input_feature_train_df, target_feature_train_df,
                   input_feature_test_df, target_feature_test_df,
                   input_feature_test_arr, label_encoder, smote_tomek_obj, resampled>>
    /\ UNCHANGED encVars

\* Line 147.
TransformTest ==
    /\ pc = "transform"
    /\ LET r == ColumnTransformer_transform(preprocessing_obj, input_feature_test_df)
       IN  /\ preprocessing_obj' = r.pre
           /\ IF r.raised
              THEN /\ Raise("ValueError")
                   /\ UNCHANGED input_feature_test_arr
              ELSE /\ input_feature_test_arr' = r.arr
                   /\ pc' = "target_fit_transform"
                   /\ UNCHANGED <<train_path, test_path, returned, exc>>
    /\ UNCHANGED <<train_df, test_df, input_feature_train_df, target_feature_train_df,
                   input_feature_test_df, target_feature_test_df,
                   input_feature_train_arr, label_encoder, smote_tomek_obj, resampled>>
    /\ UNCHANGED encVars

\* Lines 150-151.
TargetFitTransform ==
    /\ pc = "target_fit_transform"
    /\ label_encoder' = LabelEncoder_fit(target_feature_train_df)
    /\ target_feature_train_df' =
           LabelEncoder_transform(label_encoder', target_feature_train_df)
    /\ pc' = "target_transform"
    /\ UNCHANGED <<train_path, test_path, returned, exc, train_df, test_df,
                   preprocessing_obj, input_feature_train_df,
                   input_feature_test_df, target_feature_test_df, input_feature_train_arr,
                   input_feature_test_arr, smote_tomek_obj, resampled>>
    /\ UNCHANGED encVars

\* Line 152.
TargetTransform ==
    /\ pc = "target_transform"
    /\ LET r == target_transform(label_encoder, target_feature_test_df)
       IN  /\ label_encoder' = r.classes
           /\ IF r.raised
              THEN /\ Raise("ValueError")
                   /\ UNCHANGED target_feature_test_df
              ELSE /\ target_feature_test_df' = r.codes
                   /\ pc' = "fit_resample"
                   /\ UNCHANGED <<train_path, test_path, returned, exc>>
    /\ UNCHANGED <<train_df, test_df, preprocessing_obj, input_feature_train_df,
                   target_feature_train_df, input_feature_test_df, input_feature_train_arr,
                   input_feature_test_arr, smote_tomek_obj, resampled>>
    /\ UNCHANGED encVars

\* Lines 159-162.
Resample ==
    /\ pc = "fit_resample"
    /\ \E r \in fit_resample(input_feature_train_arr,
                             [i \in DOMAIN target_feature_train_df |->
                                 target_feature_train_df[i].n]) :
          IF r.raised
          THEN /\ Raise("ValueError")
               /\ UNCHANGED <<smote_tomek_obj, resampled>>
          ELSE /\ smote_tomek_obj' = [fitted |-> TRUE, n_synthetic |-> r.n_synthetic,
                                      n_removed |-> r.n_removed]
               /\ resampled' = [X |-> r.X, y |-> r.y]
               /\ pc' = "concatenate"
               /\ UNCHANGED <<train_path, test_path, returned, exc>>
    /\ UNCHANGED <<train_df, test_df, preprocessing_obj, input_feature_train_df,
                   target_feature_train_df, input_feature_test_df, target_feature_test_df,
                   input_feature_train_arr, input_feature_test_arr, label_encoder>>
    /\ UNCHANGED encVars

\* Lines 164-186.
Return ==
    /\ pc = "concatenate"
    /\ returned' = [ok |-> TRUE,
                    train_arr |-> c_(resampled.X, resampled.y),
                    test_arr |-> c_(input_feature_test_arr,
                                    [i \in DOMAIN target_feature_test_df |->
                                        target_feature_test_df[i].n]),
                    path |-> preprocessor_obj_file_path]
    /\ pc' = "done"
    /\ UNCHANGED <<train_path, test_path, exc, train_df, test_df, preprocessing_obj,
                   input_feature_train_df, target_feature_train_df,
                   input_feature_test_df, target_feature_test_df, input_feature_train_arr,
                   input_feature_test_arr, label_encoder, smote_tomek_obj, resampled>>
    /\ UNCHANGED encVars

(***************************************************************************)
(* Inputs of the stand-alone encoder.                                      *)
(***************************************************************************)
MaxRows == 2

Levels == {Str("A"), Str("B")}
Numbers == {Num(7)}

\* A DataFrame column: its dtype and its values.  An object column holds
\* strings or numbers (never both: LabelEncoder cannot sort a mix).
FrameColumns(n) ==
    [dtype : {"object"}, vals : [1..n -> Levels]]
      \cup [dtype : {"object", "int64"}, vals : [1..n -> Numbers]]

\* The column x, when present, holds numbers.
NumberColumns(n) == {c \in FrameColumns(n) : c.vals \in [1..n -> Numbers]}

FrameNames == {<<"Type">>, <<"x">>, <<"Type", "x">>}

ColumnsFor(name, n) == IF name = "Type" THEN FrameColumns(n) ELSE NumberColumns(n)

FrameTables ==
    UNION {UNION {{DataFrame(names, [j \in DOMAIN names |-> cs[j].dtype],
                             [j \in DOMAIN names |-> cs[j].vals]) :
                      cs \in {f \in [DOMAIN names -> FrameColumns(n)] :
                                 \A j \in DOMAIN names : f[j] \in ColumnsFor(names[j], n)}} :
                  names \in FrameNames} :
           n \in 1..MaxRows}

\* Object arrays of one or two columns (the second holds numbers), float
\* arrays, and string arrays of one column.
ArrayTables ==
    UNION {UNION {{NdArray("object", cs) :
                      cs \in {f \in [1..w -> [1..n -> Levels] \cup [1..n -> Numbers]] :
                                 w = 2 => f[2] \in [1..n -> Numbers]}}
                    \cup {NdArray("float64", cs) : cs \in [1..w -> [1..n -> Numbers]]} :
                  w \in 1..2}
             \cup {StrArray(cs) : cs \in [1..1 -> [1..n -> Levels]]} :
           n \in 1..MaxRows}

Tables == FrameTables \cup ArrayTables

(***************************************************************************)
(* The stand-alone encoder: one instance, called with any tables.           *)
(***************************************************************************)
MaxFits == 2

InitEnc ==
    /\ encoders = EmptyDict
    /\ op = "new"
    /\ arg = NoTable
    /\ X = NoTable
    /\ out = [raised |-> FALSE, table |-> NoTable]
    /\ fits = 0
    /\ Idle
    /\ Locals

Fit ==
    \E T \in Tables :
        /\ fits < MaxFits
        /\ encoders' = fit(encoders, T)
        /\ op' = "fit"
        /\ arg' = T
        /\ X' = T
        /\ out' = [raised |-> FALSE, table |-> NoTable]
        /\ fits' = fits + 1
        /\ UNCHANGED drvVars

Transform ==
    \E T \in Tables :
        /\ LET r == transform(encoders, T)
           IN  /\ X' = r.X
               /\ out' = [raised |-> r.raised, table |-> r.out]
               /\ encoders' = r.encoders
        /\ op' = "transform"
        /\ arg' = T
        /\ UNCHANGED fits
        /\ UNCHANGED drvVars

NextEnc == Fit \/ Transform

SpecEnc == InitEnc /\ [][NextEnc]_vars

(***************************************************************************)
(* Properties of the stand-alone encoder.                                  *)
(***************************************************************************)
\* The code sorted order gives v among the values obs: the number of
\* values of obs below v.
ExpectedCode(obs, v) == Cardinality({w \in obs : Less(w, v)})

\* C1: a fit gives every column it maps a dictionary that numbers the k
\* distinct values of the column 0..k-1 in sorted order, and a transform
\* that follows a fit, of a table whose mapped columns hold only values
\* those columns held at the fit, replaces each value of a column the fit
\* mapped with exactly that number.
C1_FitThenTransform ==
    [][ /\ op' = "fit" =>
              \A j \in DOMAIN arg'.cols :
                  IsCategoricalColumn(arg', j) =>
                      /\ KeyOf(arg', j) \in DOMAIN encoders'
                      /\ LET obs == Range(arg'.cols[j])
                             m   == encoders'[KeyOf(arg', j)]
                         IN  /\ Len(m) = Cardinality(obs)
                             /\ \A v \in obs : m[ExpectedCode(obs, v) + 1] = v
        /\ (op = "fit" /\ op' = "transform"
              /\ arg'.kind = arg.kind /\ DOMAIN arg'.cols = DOMAIN arg.cols
              /\ \A j \in DOMAIN arg.cols :
                    /\ KeyOf(arg', j) = KeyOf(arg, j)
                    /\ Range(arg'.cols[j]) \subseteq Range(arg.cols[j])) =>
              /\ ~out'.raised
              /\ \A j \in DOMAIN arg.cols :
                    IsCategoricalColumn(arg, j) =>
                        \A i \in DOMAIN arg'.cols[j] :
                            out'.table.cols[j][i] =
                                Num(ExpectedCode(Range(arg.cols[j]), arg'.cols[j][i]))
      ]_vars

NumericColumn(T, j) ==
    IF isDataFrame(T) THEN IsNumberDtype(T.dtypes[j])
    ELSE \A i \in DOMAIN T.cols[j] : T.cols[j][i].k = "num"

\* C7: after fit, no column of the fitted table that holds numbers has a
\* mapping.
C7_NoMappingForNumeric ==
    op = "fit" =>
        \A j \in DOMAIN arg.cols :
            NumericColumn(arg, j) => KeyOf(arg, j) \notin DOMAIN encoders

\* C8: transform leaves its input as it was and returns a table of the
\* same kind, columns and length in which every column without a mapping
\* equals the input column.
C8_TransformFrame ==
    op = "transform" =>
        /\ X = arg
        /\ ~out.raised =>
              /\ out.table.kind = arg.kind
              /\ out.table.columns = arg.columns
              /\ DOMAIN out.table.cols = DOMAIN arg.cols
              /\ \A j \in DOMAIN arg.cols :
                    /\ DOMAIN out.table.cols[j] = DOMAIN arg.cols[j]
                    /\ KeyOf(arg, j) \notin DOMAIN encoders =>
                          out.table.cols[j] = arg.cols[j]

\* C8 witness: a transform encoded one column of a two-column table and
\* passed the other through.
C8_Witness ==
    /\ op = "transform" /\ ~out.raised
    /\ Len(arg.cols) = 2
    /\ out.table.cols[1] # arg.cols[1]
    /\ KeyOf(arg, 2) \notin DOMAIN encoders

\* C9: a transform leaves the learned mappings unchanged, and a transform
\* of the table just transformed returns what the first returned.
C9_TransformRepeatable ==
    [][ op' = "transform" =>
            /\ encoders' = encoders
            /\ (op = "transform" /\ arg' = arg) => out' = out
      ]_vars

\* C9 witness: a transform applied a learned mapping.
C9_Witness ==
    /\ op = "transform" /\ ~out.raised
    /\ \E j \in DOMAIN arg.cols :
          KeyOf(arg, j) \in DOMAIN encoders /\ out.table.cols[j] # arg.cols[j]

\* C10: after fit, the columns that have a mapping are exactly the
\* non-numeric columns of the table just fitted.
C10_MappingsOfLatestFit ==
    op = "fit" =>
        DOMAIN encoders = {KeyOf(arg, j) : j \in {c \in DOMAIN arg.cols : IsCategoricalColumn(arg, c)}}

(***************************************************************************)
(* The driver, run once on a pair of input files.                          *)
(***************************************************************************)
InitDrv ==
    /\ encoders = EmptyDict
    /\ op = "new"
    /\ arg = NoTable
    /\ X = NoTable
    /\ out = [raised |-> FALSE, table |-> NoTable]
    /\ fits = 0
    /\ pc = "read_csv"
    /\ train_path \in TrainFiles
    /\ test_path \in TestFiles
    /\ Locals

NextDrv ==
    \/ ReadCsv
    \/ GetTransformer
    \/ SplitTarget
    \/ FitTransformTrain
    \/ TransformTest
    \/ TargetFitTransform
    \/ TargetTransform
    \/ Resample
    \/ Return

SpecDrv == InitDrv /\ [][NextDrv]_vars


(***************************************************************************)
(* Properties of the driver.                                               *)
(***************************************************************************)
TrainLabels == Column(train_df, target_column_name)

TestLabels == Column(test_df, target_column_name)

\* The code of a label under the sorted numbering of the training labels.
LabelCode(v) == ExpectedCode(Range(TrainLabels), v)

\* The feature row the fitted state pre gives row i of frame df: the five
\* standardised numeric readings, then the scaled code of Type.
FeatureRow(pre, df, i) ==
    LET type   == Column(df, "Type")[i]
        filled == IF IsObserved(type) THEN type ELSE pre.cat[1].most_frequent
        levels == Range(pre.cat[1].encoders[Num(0)])
    IN  [c \in 1..6 |->
            IF c <= 5
            THEN num_transform(pre.num[c], Column(df, numerical_columns[c])[i])
            ELSE cat_scale(pre.cat[1], Num(ExpectedCode(levels, filled)))]

\* The fitted state is the state fitted on the training features, the
\* label mapping the sorted numbering of the training labels.
FittedOnTrain ==
    /\ preprocessing_obj =
           ColumnTransformer_fit(get_data_transformer_object,
                                 Drop(train_df, target_column_name))
    /\ (pc \in {"target_transform", "fit_resample", "concatenate", "done"}) =>
           /\ Len(label_encoder) = Cardinality(Range(TrainLabels))
           /\ \A v \in Range(TrainLabels) : label_encoder[LabelCode(v) + 1] = v

C2_State ==
    /\ pc = "transform" => (FittedOnTrain /\ input_feature_test_arr = <<>>)
    /\ pc \in {"transform", "target_fit_transform"} => label_encoder = <<>>
    /\ pc = "target_transform" => (FittedOnTrain /\ target_feature_test_df = TestLabels)
    /\ pc \in {"fit_resample", "concatenate", "done"} =>
           /\ FittedOnTrain
           /\ \A i \in DOMAIN TrainLabels : \A j \in DOMAIN TestLabels :
                  TrainLabels[i] = TestLabels[j] =>
                      target_feature_train_df[i] = target_feature_test_df[j]
    /\ pc = "done" =>
           /\ \A j \in DOMAIN TestLabels :
                  returned.test_arr[j][Len(returned.test_arr[j])] =
                      IntCell(LabelCode(TestLabels[j]))
           /\ \A r \in DOMAIN returned.train_arr :
                  \E i \in DOMAIN TrainLabels :
                      returned.train_arr[r][Len(returned.train_arr[r])] =
                          IntCell(LabelCode(TrainLabels[i]))

\* C2 as stated: all fitted state, the label mapping included, has been
\* learned from the training split when the driver starts on the test
\* split (line 147); the test steps leave it as it is, and a label of both
\* splits has the same code in both.
C2_AllFittedBeforeTest ==
    /\ C2_State
    /\ pc = "transform" =>
           /\ Len(label_encoder) = Cardinality(Range(TrainLabels))
           /\ \A v \in Range(TrainLabels) : label_encoder[LabelCode(v) + 1] = v

\* C2: the feature router's state is learned from the training split
\* before the test features are transformed (line 147); the label mapping
\* is learned from the training labels after that (line 151), before the
\* test labels are encoded (line 152); the steps that process the test
\* split leave both as they were, and a label that occurs in both splits
\* has the same code in both.
C2_FittedOnTrainOnly ==
    /\ []C2_State
    /\ [][ (pc \in {"transform", "target_transform"}) =>
               /\ preprocessing_obj' = preprocessing_obj
               /\ label_encoder' = label_encoder
         ]_vars

\* C2 witness: a run completed in which a label of the training split
\* occurs in the test split and another label sorts before it.
C2_Witness ==
    /\ pc = "done"
    /\ \E j \in DOMAIN TestLabels :
          /\ TestLabels[j] \in Range(TrainLabels)
          /\ returned.test_arr[j][Len(returned.test_arr[j])] = IntCell(1)

\* C4: the test matrix has one row per test record, in order: the five
\* numeric features, the encoded Type, then the label code; the training
\* matrix the rebalancer received has the same layout, and every row of
\* the returned training matrix is a rebalanced feature row followed by
\* its label code.
C4_TestRowsAndLayout ==
    pc = "done" =>
        /\ Len(returned.test_arr) = NRows(test_df)
        /\ \A j \in 1..NRows(test_df) :
              returned.test_arr[j] =
                  FeatureRow(preprocessing_obj, test_df, j)
                      \o <<IntCell(LabelCode(TestLabels[j]))>>
        /\ Len(input_feature_train_arr) = NRows(train_df)
        /\ \A i \in 1..NRows(train_df) :
              input_feature_train_arr[i] = FeatureRow(preprocessing_obj, train_df, i)
        /\ \A r \in DOMAIN returned.train_arr :
              /\ Len(returned.train_arr[r]) = 7
              /\ SubSeq(returned.train_arr[r], 1, 6) = resampled.X[r]
              /\ returned.train_arr[r][7] = IntCell(resampled.y[r])
              /\ resampled.y[r] \in 0..(Cardinality(Range(TrainLabels)) - 1)

Readable == train_path.readable /\ test_path.readable

Complete(file) == \A name \in Range(CsvHeader) : HasColumn(file.frame, name)

LabelCount(v) == Cardinality({i \in DOMAIN TrainLabels : TrainLabels[i] = v})

\* The input files make the run fail: a file that cannot be read or lacks
\* a column or has no record, a training file without any Type or without
\* any numeric reading, a Type or a label in the test file that the
\* training file does not have, or training labels the rebalancer cannot
\* work on (one class only, or a class smaller than the largest that has
\* fewer than six rows).
InputFails ==
    IF ~Readable THEN TRUE
    ELSE IF ~Complete(train_path) \/ ~Complete(test_path) THEN TRUE
    ELSE LET train == train_path.frame
             test  == test_path.frame
         IN  \/ NRows(train) = 0
             \/ NRows(test) = 0
             \/ \A v \in Range(Column(train, "Type")) : ~IsObserved(v)
             \/ \A c \in DOMAIN numerical_columns :
                    \A v \in Range(Column(train, numerical_columns[c])) : ~IsObserved(v)
             \/ \E v \in Range(Column(test, "Type")) :
                    IsObserved(v) /\ v \notin Range(Column(train, "Type"))
             \/ \E v \in Range(Column(test, target_column_name)) :
                    v \notin Range(Column(train, target_column_name))
             \/ Cardinality(Range(Column(train, target_column_name))) <= 1
             \/ LET y == Column(train, target_column_name)
                    n(v) == Cardinality({i \in DOMAIN y : y[i] = v})
                IN  \E v, w \in Range(y) : n(v) < n(w) /\ n(v) < 6

\* C5: a run on failing input never completes; a run that failed has
\* returned nothing and has raised one CustomException that carries the
\* original exception; no run that has not failed has raised anything.
C5_FailureAborts ==
    /\ pc = "done" => ~InputFails
    /\ pc = "raised" =>
          /\ InputFails
          /\ returned = NoneReturned
          /\ \E e \in {"FileNotFoundError", "KeyError", "ValueError"} :
                 exc = <<"CustomException", e>>
    /\ pc # "raised" => exc = <<>>
    /\ returned.ok => pc = "done"

\* C5 witness: a run failed after the training split had been transformed.
C5_Witness ==
    /\ pc = "raised"
    /\ exc = <<"CustomException", "ValueError">>
    /\ input_feature_train_arr # <<>>
    /\ input_feature_test_arr # <<>>
    /\ returned = NoneReturned

\* C6 as stated: the returned training matrix has at least as many rows
\* as the training input, and one label per rebalanced feature row.
C6_NeverShorter ==
    pc = "done" =>
        /\ Len(returned.train_arr) >= NRows(train_df)
        /\ Len(resampled.y) = Len(resampled.X)

\* C6: the returned training matrix has the rows of the training input,
\* plus the synthetic rows that bring every class to the size of the
\* largest, minus the rows removed as ambiguous neighbour pairs, two per
\* pair; each of its rows is a rebalanced feature row with its label.
C6_RowBalance ==
    pc = "done" =>
        LET biggest == CHOOSE m \in {LabelCount(v) : v \in Range(TrainLabels)} :
                           \A v \in Range(TrainLabels) : LabelCount(v) <= m
            synthetic == Cardinality(Range(TrainLabels)) * biggest - NRows(train_df)
        IN  /\ smote_tomek_obj.n_synthetic = synthetic
            /\ smote_tomek_obj.n_removed % 2 = 0
            /\ Len(returned.train_arr) =
                   NRows(train_df) + synthetic - smote_tomek_obj.n_removed
            /\ Len(resampled.X) = Len(returned.train_arr)
            /\ Len(resampled.y) = Len(returned.train_arr)
            /\ \A r \in DOMAIN returned.train_arr :
                   returned.train_arr[r] = Append(resampled.X[r], IntCell(resampled.y[r]))

\* C6 witness: a run completed whose training matrix is shorter than the
\* training input, a pair of its four rows having been removed.
C6_Witness ==
    /\ pc = "done"
    /\ NRows(train_df) = 4
    /\ smote_tomek_obj.n_removed = 2
    /\ Len(returned.train_arr) = 2

====
